---------------------------- MODULE Spec2Model ----------------------------
(***************************************************************************)
(* A model of not-express (src/src/express.js): the route registry built   *)
(* by app.get and app.use, and the dispatch of one request through         *)
(* findRouteAndCallMiddleware / callMiddleware / next, with JavaScript's   *)
(* synchronous exception propagation through the nested try/catch frames.  *)
(*                                                                         *)
(* Strings of characters (URLs, regular expression sources, captures) are  *)
(* sequences of tokens; a token is a one-character string, or one of the   *)
(* regular expression tokens "^", "$", "|" and "(.+)".                     *)
(***************************************************************************)
EXTENDS Naturals, Sequences, FiniteSets

(***************************************************************************)
(* JavaScript values that travel through next(err) and throw.              *)
(***************************************************************************)
\* the value of a missing argument, next()
UNDEFINED == "undefined"
\* the err argument of callMiddleware when no error is being handled
NULL == "null"
\* the values JavaScript's !err takes for true
FalsyValues == {UNDEFINED, NULL, ""}
Truthy(v) == v \notin FalsyValues
\* TypeError: reading .middleware of undefined, calling what is no function
TypeError == "TypeError"
\* ERR_HTTP_HEADERS_SENT, thrown by res.writeHead once the headers are out
HeadersSentError == "ERR_HTTP_HEADERS_SENT"
\* two Error objects of the application
E1 == "Error:Oops!"
E2 == "Error:Oops again!"
\* a capture group that did not take part in the match
UndefinedCapture == <<"undefined">>

\* the status code an http.ServerResponse sends when none was written
StatusOK == 200
StatusNotFound == 404
StatusInternalServerError == 500
\* fn.length of an error handler
ErrorHandlerArity == 4

(***************************************************************************)
(* Regular expressions: new RegExp(source, flags) and String.match.        *)
(***************************************************************************)
GroupToken == "(.+)"
\* the flags that change how a request url is matched: global, ignoreCase,
\* sticky (a url has no line break, so "m" and "s" change nothing, and the
\* patterns here are the same with and without "u")
Flags == {"g", "i", "y"}

\* String.prototype.toUpperCase, on the letters used here
ToUpperCase(ch) ==
  CASE ch = "a" -> "A"
    [] ch = "b" -> "B"
    [] ch = "h" -> "H"
    [] ch = "o" -> "O"
    [] ch = "q" -> "Q"
    [] ch = "w" -> "W"
    [] ch = "x" -> "X"
    [] OTHER -> ch
\* Canonicalize(ch) of a regular expression: with the i flag characters
\* are compared by their upper case
Canonicalize(regexp, ch) == IF "i" \in regexp.flags THEN ToUpperCase(ch) ELSE ch

\* the number of capture groups among the first k tokens of a source
RECURSIVE GroupsUpTo(_, _)
GroupsUpTo(src, k) ==
  IF k = 0 THEN 0
  ELSE GroupsUpTo(src, k - 1) + (IF src[k] = GroupToken THEN 1 ELSE 0)

NoMatch == [ok |-> FALSE, end |-> 0, caps |-> <<>>]

\* the first of two attempts that matched
OrElse(r, other) == IF r.ok THEN r ELSE other

\* One alternative of the source, from token k, against s from position p:
\* a backtracking match, the group greedy (longest capture first).
RECURSIVE MatchFrom(_, _, _, _, _)
RECURSIVE TryGroup(_, _, _, _, _, _)
MatchFrom(regexp, k, s, p, caps) ==
  IF k > Len(regexp.source) \/ regexp.source[k] = "|"
  THEN [ok |-> TRUE, end |-> p, caps |-> caps]
  ELSE IF regexp.source[k] = GroupToken
  THEN TryGroup(regexp, k, s, p, caps, Len(s) + 1 - p)
  ELSE IF \/ regexp.source[k] = "^" /\ p = 1
          \/ regexp.source[k] = "$" /\ p = Len(s) + 1
          \/ /\ regexp.source[k] \notin {"^", "$"}
             /\ p <= Len(s)
             /\ Canonicalize(regexp, s[p]) = Canonicalize(regexp, regexp.source[k])
  THEN MatchFrom(regexp, k + 1, s,
                 IF regexp.source[k] \in {"^", "$"} THEN p ELSE p + 1, caps)
  ELSE NoMatch

\* the group at token k capturing n characters, or fewer
TryGroup(regexp, k, s, p, caps, n) ==
  IF n < 1 THEN NoMatch
  ELSE OrElse(MatchFrom(regexp, k + 1, s, p + n,
                        [caps EXCEPT ![GroupsUpTo(regexp.source, k)] =
                                       SubSeq(s, p, p + n - 1)]),
              TryGroup(regexp, k, s, p, caps, n - 1))

\* the token index at which the alternative after the one holding token k
\* starts, 0 when there is none
RECURSIVE NextAlt(_, _)
NextAlt(src, k) ==
  IF k > Len(src) THEN 0
  ELSE IF src[k] = "|" THEN k + 1
  ELSE NextAlt(src, k + 1)

\* the alternatives in order, from the one starting at token a, at position p
RECURSIVE MatchAt(_, _, _, _)
MatchAt(regexp, a, s, p) ==
  IF a = 0 THEN NoMatch
  ELSE OrElse(MatchFrom(regexp, a, s, p,
                        [g \in 1..GroupsUpTo(regexp.source, Len(regexp.source))
                           |-> UndefinedCapture]),
              MatchAt(regexp, NextAlt(regexp.source, a), s, p))

\* RegExp.prototype.exec from position p (lastIndex + 1): the leftmost
\* match, as <<the matched text>> \o the captures; a sticky regular
\* expression matches at p or not at all
RECURSIVE Exec(_, _, _)
ExecFrom(r, regexp, s, p) ==
  IF r.ok
  THEN [ok |-> TRUE, end |-> r.end, arr |-> <<SubSeq(s, p, r.end - 1)>> \o r.caps]
  ELSE IF "y" \in regexp.flags THEN [ok |-> FALSE, end |-> 0, arr |-> <<>>]
  ELSE Exec(regexp, s, p + 1)
Exec(regexp, s, p) ==
  IF p > Len(s) + 1 THEN [ok |-> FALSE, end |-> 0, arr |-> <<>>]
  ELSE ExecFrom(MatchAt(regexp, 1, s, p), regexp, s, p)

\* the matched texts of a global regular expression, from position p on
\* (an empty match moves on by one character)
RECURSIVE MatchAll(_, _, _)
MatchAllFrom(r, regexp, s) ==
  IF ~r.ok THEN <<>>
  ELSE <<r.arr[1]>> \o MatchAll(regexp, s, IF r.arr[1] = <<>> THEN r.end + 1 ELSE r.end)
MatchAll(regexp, s, p) == MatchAllFrom(Exec(regexp, s, p), regexp, s)

\* String.prototype.match: null (ok = FALSE), or the array, and the
\* lastIndex it leaves in the regular expression. With the g flag the
\* search starts at 0, the array holds every matched text and no capture,
\* and lastIndex ends 0. Without it there is one exec: a sticky regular
\* expression starts at its lastIndex and is left at the end of the match,
\* or at 0 when it fails; any other starts at 0 and keeps its lastIndex.
MatchArray(arr, lastIndex) == [ok |-> arr # <<>>, arr |-> arr, lastIndex |-> lastIndex]
ExecArray(r, regexp) ==
  MatchArray(r.arr, IF "y" \notin regexp.flags THEN regexp.lastIndex
                    ELSE IF r.ok THEN r.end - 1 ELSE 0)
StringMatch(s, regexp) ==
  IF "g" \in regexp.flags
  THEN MatchArray(MatchAll(regexp, s, 1), 0)
  ELSE ExecArray(Exec(regexp, s, IF "y" \in regexp.flags THEN regexp.lastIndex + 1 ELSE 1),
                 regexp)

\* A path given to app.get: a string, or a RegExp with its source and flags.
\* Both end as a new anchored RegExp; that of a RegExp has its flags.
pathToRegExp(path) ==
  IF path.isRegExp
  THEN [source |-> <<"^">> \o path.source \o <<"$">>, flags |-> path.flags,
        lastIndex |-> 0]
  ELSE [source |-> <<"^">> \o path.source \o <<"$">>, flags |-> {}, lastIndex |-> 0]

\* the regular expression /^\// of app.use and of the default routes
RootRegExp == [source |-> <<"^", "/">>, flags |-> {}, lastIndex |-> 0]

(***************************************************************************)
(* http.ServerResponse, as far as the handlers here use it.                *)
(***************************************************************************)
\* a function's completion: it returned, or it threw val
Returned(m) == [m |-> m, thrown |-> FALSE, val |-> UNDEFINED]
Threw(m, v) == [m |-> m, thrown |-> TRUE, val |-> v]

\* the response of a fresh request: nothing sent, statusCode at its default
NewResponse ==
  [headersSent |-> FALSE, finished |-> FALSE, statusCode |-> StatusOK, body |-> <<>>]

\* res.writeHead(code): throws once the headers have been sent
writeHead(m, code) ==
  IF m.res.headersSent
  THEN Threw(m, HeadersSentError)
  ELSE Returned([m EXCEPT !.res.headersSent = TRUE, !.res.statusCode = code])

\* res.write(chunk): sends the headers if they were not, then the chunk
write(m, chunk) ==
  IF m.res.finished
  THEN Returned(m)
  ELSE Returned([m EXCEPT !.res.headersSent = TRUE,
                          !.res.body = Append(m.res.body, chunk)])

\* res.end(chunk): sends the headers if they were not, the chunk, and finishes
end(m, chunk) ==
  IF m.res.finished
  THEN Returned(m)
  ELSE Returned([m EXCEPT !.res.headersSent = TRUE,
                          !.res.body = Append(m.res.body, chunk),
                          !.res.finished = TRUE])

(***************************************************************************)
(* Functions: the three of express.js and the application's handlers.  A   *)
(* handler is [name, length, pre, act, val]: length is fn.length, pre is   *)
(* what it does first ("write": res.write, "none"), act is how it ends     *)
(* ("end": res.end(val), "echo": res.end(err.message), "next": next(val),  *)
(* "throw": throw val, "return": it returns having done nothing) .         *)
(***************************************************************************)
callNextRoute ==
  [name |-> "callNextRoute", length |-> 3, pre |-> "none", act |-> "next", val |-> "route"]
notFoundError ==
  [name |-> "notFoundError", length |-> 2, pre |-> "none", act |-> "builtin",
   val |-> "Not Found"]
internalServerError ==
  [name |-> "internalServerError", length |-> ErrorHandlerArity, pre |-> "none",
   act |-> "builtin", val |-> "Internal Server Error"]
\* the status each of the two writes
StatusOf(fn) ==
  IF fn.name = "notFoundError" THEN StatusNotFound ELSE StatusInternalServerError

\* middleware[0] of an empty list: no function
NoFunction ==
  [name |-> "undefined", length |-> 0, pre |-> "none", act |-> "none", val |-> UNDEFINED]

\* the default routes of createApplication
notFoundRoute == [method |-> UNDEFINED, middleware |-> <<notFoundError>>, regexp |-> RootRegExp]
internalServerErrorRoute ==
  [method |-> UNDEFINED, middleware |-> <<internalServerError>>, regexp |-> RootRegExp]
defaultRoutes == <<notFoundRoute, internalServerErrorRoute>>

\* req.params before any route matched
NoParams == << <<"req.params is undefined">> >>

\* matchRoute(req)(route): whether the route matches, req with its params,
\* and the lastIndex the test leaves in route.regexp
Matched(req, match) ==
  IF ~match.ok
  THEN [matches |-> FALSE, req |-> req, lastIndex |-> match.lastIndex]
  ELSE [matches |-> TRUE, req |-> [req EXCEPT !.params = Tail(match.arr)],
        lastIndex |-> match.lastIndex]
\* a matchRoute that does not compare the methods
matchRouteAnyMethod(req, route) == Matched(req, StringMatch(req.url, route.regexp))
matchRoute(req, route) ==
  IF route.method # UNDEFINED /\ req.method # route.method
  THEN [matches |-> FALSE, req |-> req, lastIndex |-> route.regexp.lastIndex]
  ELSE Matched(req, StringMatch(req.url, route.regexp))

\* The RegExp objects of the routes are shared by the registry and by every
\* list sliced from it; m.lastIndex holds their lastIndex, one for each
\* route of the list the request walks.  routes is a suffix of that list.
\* the place of routes[i] in the list the request walks
IndexOf(m, routes, i) == Len(m.lastIndex) - Len(routes) + i
\* routes[i], its regexp as it is now
RouteAt(m, routes, i) ==
  [routes[i] EXCEPT !.regexp.lastIndex = m.lastIndex[IndexOf(m, routes, i)]]
\* the request and the regexp after the test t of routes[i]
Tested(m, routes, i, t) ==
  [m EXCEPT !.req = t.req, !.lastIndex[IndexOf(m, routes, i)] = t.lastIndex]

\* a find that takes the first route there is, matching or not
findFirst(m, routes, i) == [found |-> IF i > Len(routes) THEN 0 ELSE i, m |-> m]
\* routes.find(matchRoute(req)), from index i on: the index of the first
\* matching route, 0 for undefined, and what the tests left
RECURSIVE find(_, _, _)
FindNext(t, m, routes, i) ==
  IF t.matches THEN [found |-> i, m |-> Tested(m, routes, i, t)]
  ELSE find(Tested(m, routes, i, t), routes, i + 1)
find(m, routes, i) ==
  IF i > Len(routes) THEN [found |-> 0, m |-> m]
  ELSE FindNext(matchRoute(m.req, RouteAt(m, routes, i)), m, routes, i)

\* routes.slice(i + 1) for the 1-based index i
SliceFrom(seq, i) == SubSeq(seq, i + 1, Len(seq))
\* middleware.slice(1)
Slice1(seq) == SliceFrom(seq, 1)

\* what the dispatch did, in order: entries of the log
FindEvent(err, routes, i) ==
  [op |-> "find", err |-> err, routes |-> Len(routes), found |-> i]
CallEvent(how, err, m, middleware, nextRoutes) ==
  [op |-> "call", how |-> how, err |-> err,
   fn |-> IF middleware = <<>> THEN NoFunction ELSE middleware[1],
   rest |-> Len(middleware), left |-> Len(nextRoutes), params |-> m.req.params,
   headersSent |-> m.res.headersSent]
CatchEvent(v, middleware, nextRoutes) ==
  [op |-> "catch", val |-> v, rest |-> Len(middleware), left |-> Len(nextRoutes)]
Logged(m, e) == [m EXCEPT !.log = Append(m.log, e)]

RECURSIVE callMiddleware(_, _, _, _)
RECURSIVE next(_, _, _, _)
RECURSIVE findRouteAndCallMiddleware(_, _, _)

\* a callMiddleware that goes on with the next handler when a handler
\* returns without a signal
CallHandlerThenNext(fn, shifted, err, m, middleware, nextRoutes) ==
  IF shifted
  THEN IF fn.pre = "write" \/ fn.act \in {"end", "echo", "next"}
       THEN Threw(m, TypeError)
       ELSE IF fn.act = "throw" THEN Threw(m, fn.val) ELSE Returned(m)
  ELSE IF fn.act = "end" THEN end(m, fn.val)
  ELSE IF fn.act = "echo" THEN end(m, err)
  ELSE IF fn.act = "throw" THEN Threw(m, fn.val)
  ELSE next(IF fn.act = "next" THEN fn.val ELSE UNDEFINED, m, middleware, nextRoutes)
\* The body of a handler of the application, called with the arguments
\* callMiddleware passes.  A function declared with four parameters and called
\* with (req, res, next) has the continuation in its res and undefined in its
\* next (shifted): touching either throws a TypeError.
CallHandler(fn, shifted, err, m, middleware, nextRoutes) ==
  IF shifted
  THEN IF fn.pre = "write" \/ fn.act \in {"end", "echo", "next"}
       THEN Threw(m, TypeError)
       ELSE IF fn.act = "throw" THEN Threw(m, fn.val) ELSE Returned(m)
  ELSE IF fn.act = "end" THEN end(m, fn.val)
  ELSE IF fn.act = "echo" THEN end(m, err)
  ELSE IF fn.act = "next" THEN next(fn.val, m, middleware, nextRoutes)
  ELSE IF fn.act = "throw" THEN Threw(m, fn.val)
  ELSE Returned(m)

\* notFoundError and internalServerError: res.writeHead(code); res.end(text)
CallDefault(fn, shifted, m) ==
  IF shifted THEN Threw(m, TypeError)
  ELSE IF writeHead(m, StatusOf(fn)).thrown THEN writeHead(m, StatusOf(fn))
  ELSE end(writeHead(m, StatusOf(fn)).m, fn.val)

\* fn(req, res, next) or fn(err, req, res, next)
CallFunction(fn, withErr, err, m, middleware, nextRoutes) ==
  IF fn.act = "builtin"
  THEN CallDefault(fn, fn.length = ErrorHandlerArity /\ ~withErr, m)
  ELSE CallHandler(fn, fn.length = ErrorHandlerArity /\ ~withErr, err,
                   IF fn.pre = "write" /\ (fn.length # ErrorHandlerArity \/ withErr)
                   THEN write(m, "chunk").m ELSE m,
                   middleware, nextRoutes)

\* a next whose plain call leaves the route for the routes after it
nextLeavesRoute(err, m, middleware, nextRoutes) ==
  findRouteAndCallMiddleware(IF ~Truthy(err) \/ err = "route" THEN NULL ELSE err,
                             m, nextRoutes)
\* a next that keeps "route" in flight as an error
nextRouteAsError(err, m, middleware, nextRoutes) ==
  IF ~Truthy(err)
  THEN callMiddleware(NULL, m, Slice1(middleware), nextRoutes)
  ELSE findRouteAndCallMiddleware(err, m, nextRoutes)
\* next(err) of callMiddleware(_, req, res, middleware, nextRoutes)
next(err, m, middleware, nextRoutes) ==
  IF ~Truthy(err)
  THEN callMiddleware(NULL, m, Slice1(middleware), nextRoutes)
  ELSE findRouteAndCallMiddleware(IF err = "route" THEN NULL ELSE err, m, nextRoutes)

\* which branch the try block of callMiddleware takes
Branch(err, middleware) ==
  IF middleware = <<>> THEN "empty"
  ELSE IF Truthy(err) /\ middleware[1].length # ErrorHandlerArity THEN "skip"
  ELSE "invoke"

\* the try block of callMiddleware
TryBlock(err, m, middleware, nextRoutes) ==
  IF Branch(err, middleware) = "invoke"
  THEN CallFunction(middleware[1], Truthy(err), err,
                    Logged(m, CallEvent("invoke", err, m, middleware, nextRoutes)),
                    middleware, nextRoutes)
  ELSE next(IF Branch(err, middleware) = "empty" THEN "route" ELSE err,
            Logged(m, CallEvent(Branch(err, middleware), err, m, middleware, nextRoutes)),
            middleware, nextRoutes)

\* the catch block of callMiddleware, entered when the try block threw
CatchBlock(try, middleware, nextRoutes) ==
  IF try.thrown
  THEN next(try.val, Logged(try.m, CatchEvent(try.val, middleware, nextRoutes)),
            middleware, nextRoutes)
  ELSE try

\* callMiddleware(err, req, res, middleware, nextRoutes)
callMiddleware(err, m, middleware, nextRoutes) ==
  CatchBlock(TryBlock(err, m, middleware, nextRoutes), middleware, nextRoutes)

\* the rest of findRouteAndCallMiddleware, f what routes.find gave:
\* reading .middleware of undefined throws when no route matches
CallMatching(err, f, routes) ==
  IF f.found = 0
  THEN Threw(Logged(f.m, FindEvent(err, routes, f.found)), TypeError)
  ELSE callMiddleware(err, Logged(f.m, FindEvent(err, routes, f.found)),
                      routes[f.found].middleware, SliceFrom(routes, f.found))

\* findRouteAndCallMiddleware(err, req, res, routes)
findRouteAndCallMiddleware(err, m, routes) ==
  CallMatching(err, find(m, routes, 1), routes)

\* the lastIndex of the regexp of each route of a list
LastIndexOf(routes) == [i \in 1..Len(routes) |-> routes[i].regexp.lastIndex]
\* handleRequest(req, res) on the routes registered so far
handleRequest(allRoutes, method, url) ==
  findRouteAndCallMiddleware(
    NULL,
    [req |-> [method |-> method, url |-> url, params |-> NoParams],
     res |-> NewResponse, log |-> <<>>,
     lastIndex |-> LastIndexOf(allRoutes \o defaultRoutes)],
    allRoutes \o defaultRoutes)

(***************************************************************************)
(* The applications: what the program built on the library registers, and  *)
(* the requests its clients send.                                          *)
(***************************************************************************)
Handler(name, length, pre, act, val) ==
  [name |-> name, length |-> length, pre |-> pre, act |-> act, val |-> val]

\* function (req, res) { res.end("Hello World!"); }
hEnd == Handler("hEnd", 2, "none", "end", "Hello World!")
\* function (req, res, next) { next(); }
hNext == Handler("hNext", 3, "none", "next", UNDEFINED)
\* function (req, res, next) { next("route"); }
hRoute == Handler("hRoute", 3, "none", "next", "route")
\* function (req, res, next) { next(new Error("Oops!")); }
hNextErr == Handler("hNextErr", 3, "none", "next", E1)
\* function () { throw new Error("Oops!"); }
hThrow == Handler("hThrow", 0, "none", "throw", E1)
\* function () { throw undefined; }
hThrowUndefined == Handler("hThrowUndefined", 0, "none", "throw", UNDEFINED)
\* function () { throw "route"; }
hThrowRoute == Handler("hThrowRoute", 0, "none", "throw", "route")
\* function (req, res, next) { res.write("chunk"); next(); }
hWriteNext == Handler("hWriteNext", 3, "write", "next", UNDEFINED)
\* function (req, res) { res.write("chunk"); throw new Error("Oops!"); }
hWriteThrow == Handler("hWriteThrow", 2, "write", "throw", E1)
\* function (req, res) { res.write("chunk"); res.end("Hello World!"); }
hWriteEnd == Handler("hWriteEnd", 2, "write", "end", "Hello World!")
\* function (err, req, res, next) { res.end(err.message); }
ehEcho == Handler("ehEcho", ErrorHandlerArity, "none", "echo", UNDEFINED)
\* function (err, req, res, next) { throw new Error("Oops again!"); }
ehThrow == Handler("ehThrow", ErrorHandlerArity, "none", "throw", E2)
\* function (err, req, res, next) { next(); }
ehNext == Handler("ehNext", ErrorHandlerArity, "none", "next", UNDEFINED)
\* function (err, req, res, next) { next("route"); }
ehRoute == Handler("ehRoute", ErrorHandlerArity, "none", "next", "route")
\* function (req, res) { }: it returns and never ends the response
hSilent == Handler("hSilent", 2, "none", "return", UNDEFINED)
\* function (req, res, next) { setTimeout(next); }: it returns, and calls its
\* continuation in a later turn
hDefer == Handler("hDefer", 3, "none", "defer", UNDEFINED)

\* paths given to app.get
String(source) == [isRegExp |-> FALSE, source |-> source, flags |-> {}]
RegExp(source, flags) == [isRegExp |-> TRUE, source |-> source, flags |-> flags]
\* "/"
PathRoot == String(<<"/">>)
\* "/h"
PathHello == String(<<"/", "h">>)
\* /\/h\/(.+)/ and /\/h\/(.+)/g
PathParam == RegExp(<<"/", "h", "/", "(.+)">>, {})
PathParamGlobal == RegExp(<<"/", "h", "/", "(.+)">>, {"g"})
\* /\/(.+)\/(.+)/
PathTwoParams == RegExp(<<"/", "(.+)", "/", "(.+)">>, {})
\* /\/h/y and /\/h/i: the sticky and the ignoreCase flag
PathHelloSticky == RegExp(<<"/", "h">>, {"y"})
PathHelloIgnoreCase == RegExp(<<"/", "h">>, {"i"})
\* /\/a|\/b/ and "/a|/b": an alternation at the top level
PathAlternation == RegExp(<<"/", "a", "|", "/", "b">>, {})
PathAlternationString == String(<<"/", "a", "|", "/", "b">>)

\* request URLs
UrlRoot == <<"/">>
UrlHello == <<"/", "h">>
UrlParam == <<"/", "h", "/", "W", "o">>
\* /h?q and /h/Wo?q
UrlHelloQuery == <<"/", "h", "?", "q">>
UrlParamQuery == <<"/", "h", "/", "W", "o", "?", "q">>
UrlWorld == <<"/", "w">>
\* /H
UrlHelloUpperCase == <<"/", "H">>
\* /a, /b, /a/x and /x/b
UrlA == <<"/", "a">>
UrlB == <<"/", "b">>
UrlBeginsWithA == <<"/", "a", "/", "x">>
UrlEndsWithB == <<"/", "x", "/", "b">>

\* an argument of app.get after the path: a function, or an array of functions
Fn(h) == [isArray |-> FALSE, items |-> <<h>>]
Array(hs) == [isArray |-> TRUE, items |-> hs]

\* the number of registration calls an application makes
MaxRoutes == 2
\* the same for the applications that recover from an error
MaxSkipRoutes == 3

\* routing by method and literal path, continue and route-skip
RoutingProgram ==
  [paths |-> {PathRoot, PathHello},
   callbacks |-> {<<>>, <<Fn(hEnd)>>, <<Fn(hNext), Fn(hEnd)>>, <<Array(<<hRoute, hEnd>>)>>},
   mounts |-> {hNext, ehEcho},
   methods |-> {"GET", "POST"},
   urls |-> {UrlRoot, UrlHello},
   routes |-> MaxRoutes]

\* routing by pattern, with path parameters
ParamsProgram ==
  [paths |-> {PathParam, PathParamGlobal, PathTwoParams},
   callbacks |-> {<<Fn(hEnd)>>, <<Fn(hNext), Fn(hEnd)>>},
   mounts |-> {hNext},
   methods |-> {"GET"},
   urls |-> {UrlParam, UrlHello},
   routes |-> MaxRoutes]

\* handlers that fail, and error handlers
ErrorProgram ==
  [paths |-> {PathRoot},
   callbacks |-> {<<>>, <<Fn(hThrow)>>, <<Fn(hNextErr)>>, <<Fn(hThrow), Fn(ehEcho)>>,
                  <<Fn(hThrowUndefined)>>, <<Fn(hThrowRoute)>>, <<Fn(hEnd)>>},
   mounts |-> {ehEcho, ehThrow, ehNext, ehRoute, hNext},
   methods |-> {"GET"},
   urls |-> {UrlRoot, UrlHello},
   routes |-> MaxRoutes]

\* handlers that write to the response before they end, continue or fail
HeadersProgram ==
  [paths |-> {PathRoot},
   callbacks |-> {<<Fn(hWriteNext)>>, <<Fn(hWriteThrow)>>, <<Fn(hWriteEnd)>>,
                  <<Fn(hNext), Fn(hWriteNext)>>, <<Fn(hEnd)>>},
   mounts |-> {hWriteNext, hNext, ehEcho},
   methods |-> {"GET"},
   urls |-> {UrlRoot, UrlWorld},
   routes |-> MaxRoutes]

\* an error handler that leaves its route, and what is registered after it
SkipProgram ==
  [paths |-> {PathRoot},
   callbacks |-> {<<Fn(hThrow)>>, <<Fn(hEnd)>>},
   mounts |-> {ehRoute, ehEcho},
   methods |-> {"GET"},
   urls |-> {UrlRoot},
   routes |-> MaxSkipRoutes]

\* requests with a query string
QueryProgram ==
  [paths |-> {PathHello, PathParam},
   callbacks |-> {<<Fn(hEnd)>>},
   mounts |-> {hNext},
   methods |-> {"GET"},
   urls |-> {UrlHello, UrlHelloQuery, UrlParamQuery},
   routes |-> MaxRoutes]

\* paths with several branches
AlternationProgram ==
  [paths |-> {PathAlternation, PathAlternationString, PathHello},
   callbacks |-> {<<Fn(hEnd)>>},
   mounts |-> {hNext},
   methods |-> {"GET"},
   urls |-> {UrlA, UrlB, UrlBeginsWithA, UrlEndsWithB, UrlHello},
   routes |-> MaxRoutes]

\* patterns with flags
FlagsProgram ==
  [paths |-> {PathHelloSticky, PathHelloIgnoreCase},
   callbacks |-> {<<Fn(hEnd)>>},
   mounts |-> {hNext},
   methods |-> {"GET"},
   urls |-> {UrlHello, UrlHelloUpperCase},
   routes |-> MaxRoutes]

\* handlers that return without a signal, and registrations made meanwhile
DeferProgram ==
  [paths |-> {PathRoot},
   callbacks |-> {<<Fn(hDefer)>>, <<Fn(hSilent)>>, <<Fn(hEnd)>>, <<Fn(hDefer), Fn(hEnd)>>},
   mounts |-> {hDefer, hNext},
   methods |-> {"GET"},
   urls |-> {UrlRoot},
   routes |-> MaxRoutes]

Programs ==
  {RoutingProgram, ParamsProgram, ErrorProgram, HeadersProgram, SkipProgram, QueryProgram,
   AlternationProgram, FlagsProgram, DeferProgram}


(***************************************************************************)
(* The state: the application object and the last request it served.       *)
(***************************************************************************)
VARIABLES
  program,    \* what the application registers and is asked
  allRoutes,  \* createApplication's allRoutes
  walked,     \* the routes the last request walked, allRoutes.concat(defaultRoutes),
              \* as the request found them
  req,        \* the last request, with the params the dispatch left in it
  res,        \* its response
  log,        \* what its dispatch did, in order
  outcome     \* how handleRequest ended: "none" (no request yet), "returned", "threw"

vars == <<program, allRoutes, walked, req, res, log, outcome>>

\* callbacks.flat(): one level of arrays flattened
RECURSIVE flat(_)
flat(callbacks) ==
  IF callbacks = <<>> THEN <<>> ELSE Head(callbacks).items \o flat(Tail(callbacks))

\* createApplication()
Init ==
  /\ program \in Programs
  /\ allRoutes = <<>>
  /\ walked = <<>>
  /\ req = [method |-> "", url |-> <<>>, params |-> NoParams]
  /\ res = NewResponse
  /\ log = <<>>
  /\ outcome = "none"

\* the route app.get(path, ...callbacks) pushes
getRoute(path, callbacks) ==
  [method |-> "GET", middleware |-> flat(callbacks), regexp |-> pathToRegExp(path)]

\* a mount that registers its route for GET only
useRouteGetOnly(callback) ==
  [method |-> "GET", middleware |-> <<callback, callNextRoute>>, regexp |-> RootRegExp]
\* the route app.use(callback) pushes
useRoute(callback) ==
  [method |-> UNDEFINED, middleware |-> <<callback, callNextRoute>>, regexp |-> RootRegExp]

\* app.get(path, ...callbacks)
get(path, callbacks) ==
  /\ Len(allRoutes) < program.routes
  /\ allRoutes' = Append(allRoutes, getRoute(path, callbacks))
  /\ UNCHANGED <<program, walked, req, res, log, outcome>>

\* app.use(callback)
use(callback) ==
  /\ Len(allRoutes) < program.routes
  /\ allRoutes' = Append(allRoutes, useRoute(callback))
  /\ UNCHANGED <<program, walked, req, res, log, outcome>>

\* the registry after a dispatch: its routes are the objects the request
\* walked, so the regexps of the routes the request took when it started
\* are as its tests left them
Stored(routes, lastIndex) ==
  [i \in 1..Len(routes) |->
     IF i <= Len(lastIndex) - Len(defaultRoutes)
     THEN [routes[i] EXCEPT !.regexp.lastIndex = lastIndex[i]]
     ELSE routes[i]]
\* the state after a dispatch, or a part of one, ran to completion
Dispatch(r) ==
  /\ allRoutes' = Stored(allRoutes, r.m.lastIndex)
  /\ req' = r.m.req
  /\ res' = r.m.res
  /\ log' = r.m.log
  /\ outcome' = IF r.thrown THEN "threw" ELSE "returned"
  /\ UNCHANGED program
\* the server's "request" event: handleRequest(req, res), run to completion
Request(method, url) ==
  /\ walked' = allRoutes \o defaultRoutes
  /\ Dispatch(handleRequest(allRoutes, method, url))

\* the last handler invoked for the request returned without a signal and
\* holds its continuation for a later turn
Pending ==
  /\ outcome = "returned"
  /\ log # <<>>
  /\ log[Len(log)].op = "call"
  /\ log[Len(log)].how = "invoke"
  /\ log[Len(log)].fn.act = "defer"
\* what the continuation made by the call of event e closed over: the
\* middleware and the nextRoutes callMiddleware was called with
middlewareOf(e) ==
  SubSeq(walked[Len(walked) - e.left].middleware,
         Len(walked[Len(walked) - e.left].middleware) - e.rest + 1,
         Len(walked[Len(walked) - e.left].middleware))
\* a continuation that reads the routes after its own in the registry
nextRoutesOfRegistry(e) ==
  SubSeq(allRoutes \o defaultRoutes, Len(walked) - e.left + 1,
         Len(allRoutes) + Len(defaultRoutes))
nextRoutesOf(e) == SubSeq(walked, Len(walked) - e.left + 1, Len(walked))
\* the call of a continuation in a later turn, and how many routes the
\* registry holds by then
ResumeEvent(e) ==
  [op |-> "resume", val |-> e.fn.val, rest |-> e.rest, left |-> e.left,
   registered |-> Len(allRoutes)]
\* a later turn in which the handler that returned calls its next
Resume ==
  /\ Pending
  /\ UNCHANGED walked
  /\ Dispatch(next(log[Len(log)].fn.val,
                   [req |-> req, res |-> res,
                    log |-> Append(log, ResumeEvent(log[Len(log)])),
                    lastIndex |->
                      LastIndexOf(SubSeq(allRoutes, 1, Len(walked) - Len(defaultRoutes))
                                    \o defaultRoutes)],
                   middlewareOf(log[Len(log)]), nextRoutesOf(log[Len(log)])))

Get == \E path \in program.paths, callbacks \in program.callbacks : get(path, callbacks)
Use == \E callback \in program.mounts : use(callback)
HandleRequest == \E method \in program.methods, url \in program.urls : Request(method, url)

Next == Get \/ Use \/ HandleRequest \/ Resume

Spec == Init /\ [][Next]_vars

(***************************************************************************)
(* The CORS middleware of cors.js, called on its own with a request, a     *)
(* response that records the headers set on it, and a continuation that    *)
(* records its calls.  An option or a request header that is absent is     *)
(* [given |-> FALSE]; req.headers of an absent header is undefined.        *)
(***************************************************************************)
AccessControlAllowHeaders == "Access-Control-Allow-Headers"
AccessControlAllowMethods == "Access-Control-Allow-Methods"
AccessControlAllowOrigin == "Access-Control-Allow-Origin"
HeaderNames ==
  {AccessControlAllowHeaders, AccessControlAllowMethods, AccessControlAllowOrigin}
\* the default of the allowed methods
DefaultMethods == "GET"

Absent == [given |-> FALSE, value |-> UNDEFINED]
Given(v) == [given |-> TRUE, value |-> v]

\* Array.prototype.join(",")
RECURSIVE join(_)
join(list) ==
  IF list = <<>> THEN ""
  ELSE IF Len(list) = 1 THEN list[1]
  ELSE list[1] \o "," \o join(Tail(list))
\* an includes that finds every value
includesAny(list, v) == TRUE
\* Array.prototype.includes
includes(list, v) == \E i \in 1..Len(list) : list[i] = v

\* res.setHeader(name, value) of the recording response
SetHeaderEvent(name, value) == [op |-> "setHeader", name |-> name, value |-> value]
setHeader(m, name, value) ==
  [m EXCEPT !.res.headers[name] = value,
            !.log = Append(m.log, SetHeaderEvent(name, value))]
\* next(arg) of the recording continuation
NextEvent(arg) == [op |-> "next", name |-> "", value |-> arg]
corsNext(m, arg) == [m EXCEPT !.log = Append(m.log, NextEvent(arg))]

\* req.headers[name]
HeaderValue(header) == IF header.given THEN header.value ELSE UNDEFINED

\* if (accessControlRequestHeaders) res.setHeader("Access-Control-Allow-Headers", ...)
ReflectHeaders(m) ==
  IF Truthy(HeaderValue(m.req.headers.accessControlRequestHeaders))
  THEN setHeader(m, AccessControlAllowHeaders,
                 HeaderValue(m.req.headers.accessControlRequestHeaders))
  ELSE m

\* options.methods?.join(",") || "GET"
allowMethods(options) ==
  IF options.methods.given /\ Truthy(join(options.methods.value))
  THEN join(options.methods.value)
  ELSE DefaultMethods

\* a middleware that continues only for an allowed origin
AllowOriginOrStop(options, m) ==
  IF Truthy(HeaderValue(m.req.headers.origin)) /\ options.origin.given
     /\ includes(options.origin.value, HeaderValue(m.req.headers.origin))
  THEN Returned(corsNext(setHeader(m, AccessControlAllowOrigin,
                                   HeaderValue(m.req.headers.origin)),
                         UNDEFINED))
  ELSE Returned(m)
\* origin && options.origin.includes(origin) && origin; then
\* if (allowOrigin) res.setHeader(...); next()
\* (options.origin.includes throws a TypeError when options.origin is undefined)
AllowOriginAndNext(options, m) ==
  IF ~Truthy(HeaderValue(m.req.headers.origin))
  THEN Returned(corsNext(m, UNDEFINED))
  ELSE IF ~options.origin.given
  THEN Threw(m, TypeError)
  ELSE IF includes(options.origin.value, HeaderValue(m.req.headers.origin))
  THEN Returned(corsNext(setHeader(m, AccessControlAllowOrigin,
                                   HeaderValue(m.req.headers.origin)),
                         UNDEFINED))
  ELSE Returned(corsNext(m, UNDEFINED))

\* corsMiddleware(req, res, next) of createMiddleware(options)
corsMiddleware(options, m) ==
  AllowOriginAndNext(options,
                     setHeader(ReflectHeaders(m), AccessControlAllowMethods,
                               allowMethods(options)))

\* the options applications create the middleware with
CorsMethods ==
  {Absent, Given(<<>>), Given(<<"GET">>), Given(<<"GET", "POST">>),
   Given(<<"GET", "POST", "PUT">>)}
CorsOrigins ==
  {Absent, Given(<<>>), Given(<<"http://example.com">>),
   Given(<<"http://example.com", "http://example.net">>),
   Given(<<"", "http://example.com">>)}
\* the headers of the requests
RequestOrigins ==
  {Absent, Given(""), Given("http://example.com"), Given("http://example.org"),
   Given("http://example.net")}
RequestHeaders == {Absent, Given(""), Given("Authorization"), Given("X-A,X-B")}

\* no middleware created yet
NoOptions == [methods |-> Absent, origin |-> Absent, created |-> FALSE]
\* a response with no header set
NoHeaders == [name \in HeaderNames |-> UNDEFINED]

CorsInit ==
  /\ program = NoOptions
  /\ allRoutes = <<>>
  /\ walked = <<>>
  /\ req = [headers |-> [accessControlRequestHeaders |-> Absent, origin |-> Absent]]
  /\ res = [headers |-> NoHeaders]
  /\ log = <<>>
  /\ outcome = "none"

\* cors(options)
createMiddleware(options) ==
  /\ ~program.created
  /\ program' = options
  /\ UNCHANGED <<allRoutes, walked, req, res, log, outcome>>

\* the created middleware called with a request, a fresh response and a
\* continuation
CallCorsMiddleware(headers) ==
  LET r == corsMiddleware(program,
                          [req |-> [headers |-> headers], res |-> [headers |-> NoHeaders],
                           log |-> <<>>])
  IN  /\ program.created
      /\ req' = r.m.req
      /\ res' = r.m.res
      /\ log' = r.m.log
      /\ outcome' = IF r.thrown THEN "threw" ELSE "returned"
      /\ UNCHANGED <<program, allRoutes, walked>>

CreateMiddleware ==
  \E methods \in CorsMethods, origin \in CorsOrigins :
    createMiddleware([methods |-> methods, origin |-> origin, created |-> TRUE])
CorsMiddleware ==
  \E requestHeaders \in RequestHeaders, origin \in RequestOrigins :
    CallCorsMiddleware([accessControlRequestHeaders |-> requestHeaders,
                        origin |-> origin])

CorsNext == CreateMiddleware \/ CorsMiddleware

CorsSpec == CorsInit /\ [][CorsNext]_vars

(***************************************************************************)
(* Reading one dispatch: walked is the route list the request went         *)
(* through, log what the dispatch did, res and outcome how it ended.       *)
(***************************************************************************)
Dispatched == outcome # "none"
\* the indices in walked of the routes the application registered
UserRoutes == 1..(Len(walked) - Len(defaultRoutes))
Calls == {k \in 1..Len(log) : log[k].op = "call"}
Invokes == {k \in Calls : log[k].how = "invoke"}
Finds == {k \in 1..Len(log) : log[k].op = "find"}
\* the route whose middleware list the call event k is in, and the position
\* of its function in that list
RouteOf(k) == Len(walked) - log[k].left
PosOf(k) == Len(walked[RouteOf(k)].middleware) - log[k].rest + 1
\* event j is at an earlier (route, position) than event k
Before(j, k) ==
  \/ RouteOf(j) < RouteOf(k)
  \/ RouteOf(j) = RouteOf(k) /\ PosOf(j) < PosOf(k)
\* the function of event k was called with the parameters it declares
Aligned(k) == ~(log[k].fn.length = ErrorHandlerArity /\ log[k].err = NULL)
\* the function of event k is one of the two default responders
IsDefault(k) == log[k].fn.act = "builtin"
\* route i of walked matches the request: its method is the request's or it
\* has none, and its regular expression matches the request's url
EntryMatches(i) ==
  /\ walked[i].method \in {UNDEFINED, req.method}
  /\ StringMatch(req.url, walked[i].regexp).ok
\* the responses of the two default responders
DefaultNotFound ==
  [headersSent |-> TRUE, finished |-> TRUE, statusCode |-> StatusNotFound,
   body |-> <<"Not Found">>]
DefaultInternalServerError ==
  [headersSent |-> TRUE, finished |-> TRUE, statusCode |-> StatusInternalServerError,
   body |-> <<"Internal Server Error">>]

\* C1: a request that no registered route matches by method and path is
\* answered by the default "not found" responder: the dispatch returns, the
\* response is finished with status 404 and the fixed body, and no other
\* function was invoked.
C1_NoMatchIsNotFound ==
  (Dispatched /\ \A i \in UserRoutes : ~EntryMatches(i))
    => /\ outcome = "returned"
       /\ res = DefaultNotFound
       /\ \A k \in Invokes : log[k].fn = notFoundError

\* a request answered 404 although a registered route has its path: the
\* route is for another method
C1_Witness ==
  /\ Dispatched
  /\ \A i \in UserRoutes : ~EntryMatches(i)
  /\ \E i \in UserRoutes : StringMatch(req.url, walked[i].regexp).ok
  /\ res = DefaultNotFound

\* a handler that passes the request on untouched
PassThrough(fn) ==
  /\ fn.length # ErrorHandlerArity
  /\ fn.pre = "none"
  /\ fn.act = "next"
  /\ fn.val \in {UNDEFINED, "route"}
\* route i is a GET route for the literal path of the request, a GET, and
\* its first handler ends the response; no handler registered before it
\* for the request answers it or puts an error in flight: each is of error
\* shape, no candidate while no error is in flight, or passes the request on
LiteralTarget(i) ==
  /\ req.method = "GET"
  /\ walked[i].method = "GET"
  /\ walked[i].regexp = pathToRegExp(String(req.url))
  /\ walked[i].middleware # <<>>
  /\ walked[i].middleware[1].length # ErrorHandlerArity
  /\ walked[i].middleware[1].act = "end"
  /\ \A j \in 1..(i - 1) :
       EntryMatches(j) =>
         \A h \in 1..Len(walked[j].middleware) :
           \/ PassThrough(walked[j].middleware[h])
           \/ walked[j].middleware[h].length = ErrorHandlerArity
\* what a handler that ends the response leaves as the response
OutputOf(fn) ==
  [headersSent |-> TRUE, finished |-> TRUE, statusCode |-> StatusOK,
   body |-> (IF fn.pre = "write" THEN <<"chunk">> ELSE <<>>) \o <<fn.val>>]

\* C2: a GET request whose path equals the literal path of a GET route is
\* answered by that route's handler: the handler is invoked with no error,
\* the response is what the handler wrote, with status 200, and neither
\* default responder is invoked.
C2_LiteralGetIsHandled ==
  \A i \in UserRoutes :
    LiteralTarget(i) =>
      /\ outcome = "returned"
      /\ res = OutputOf(walked[i].middleware[1])
      /\ \E k \in Invokes : RouteOf(k) = i /\ PosOf(k) = 1 /\ log[k].err = NULL
      /\ \A k \in Invokes : ~IsDefault(k)

\* the source of a pattern from token k on, its groups replaced by caps
RECURSIVE Filled(_, _, _)
Filled(src, caps, k) ==
  IF k > Len(src) THEN <<>>
  ELSE (IF src[k] = GroupToken THEN caps[GroupsUpTo(src, k)] ELSE <<src[k]>>)
       \o Filled(src, caps, k + 1)
\* the number of capture groups of the regular expression of route i
GroupsOf(i) == GroupsUpTo(walked[i].regexp.source, Len(walked[i].regexp.source))

\* C3: every handler invoked for a route whose pattern has capture groups
\* sees params equal to the list of the strings the groups captured: one
\* string per group, in order, which put in the groups' places give the
\* request's path.
C3_ParamsAreCaptures ==
  \A k \in Invokes :
    GroupsOf(RouteOf(k)) > 0 =>
      /\ Len(log[k].params) = GroupsOf(RouteOf(k))
      /\ Filled(walked[RouteOf(k)].regexp.source, log[k].params, 1)
           = <<"^">> \o req.url \o <<"$">>

\* the handler of event k signalled "continue", being called as declared
Continues(k) ==
  /\ log[k].fn.act = "next"
  /\ ~Truthy(log[k].fn.val)
  /\ Aligned(k)

\* C4: when a handler signals "continue", with no argument or a falsy one,
\* the dispatch goes on with the element right after it in the same route,
\* with no error in flight and the same request; at the end of the route it
\* goes on with the routes after it.
C4_ContinueGoesToNext ==
  \A k \in Invokes :
    Continues(k) =>
      /\ k + 1 <= Len(log)
      /\ log[k + 1].op = "call"
      /\ log[k + 1].err = NULL
      /\ log[k + 1].left = log[k].left
      /\ log[k + 1].rest = log[k].rest - 1
      /\ log[k + 1].params = log[k].params
      /\ log[k + 1].rest = 0 =>
           /\ k + 2 <= Len(log)
           /\ log[k + 2].op = "find"
           /\ log[k + 2].err = NULL
           /\ log[k + 2].routes = log[k].left

\* an error handler that was handed an error continued, and the element after
\* it was called with no error
C4_Witness ==
  \E k \in Invokes :
    /\ Continues(k)
    /\ log[k].fn.length = ErrorHandlerArity
    /\ log[k].err = E1
    /\ log[k + 1].op = "call"
    /\ log[k + 1].err = NULL

\* the handler of event k signalled "route-skip", being called as declared
SkipsRoute(k) ==
  /\ log[k].fn.act = "next"
  /\ log[k].fn.val = "route"
  /\ Aligned(k)
\* the first of the last n routes of walked that matches the request, as an
\* index among them; 0 if none does
FirstMatching(n) ==
  IF \E i \in 1..n : EntryMatches(Len(walked) - n + i)
  THEN CHOOSE i \in 1..n :
         /\ EntryMatches(Len(walked) - n + i)
         /\ \A j \in 1..(i - 1) : ~EntryMatches(Len(walked) - n + j)
  ELSE 0

\* C5: when a handler signals "route-skip", no later handler of its route is
\* invoked, and the dispatch goes on, with no error in flight, at the first
\* matching route after it, whose first handler is invoked.
C5_RouteSkip ==
  \A k \in Invokes :
    SkipsRoute(k) =>
      /\ \A j \in Invokes : j > k => RouteOf(j) # RouteOf(k)
      /\ k + 2 <= Len(log)
      /\ log[k + 1].op = "find"
      /\ log[k + 1].err = NULL
      /\ log[k + 1].routes = log[k].left
      /\ log[k + 1].found = FirstMatching(log[k].left)
      /\ log[k + 2].op = "call"
      /\ log[k + 2].err = NULL
      /\ RouteOf(k + 2) = RouteOf(k) + log[k + 1].found
      /\ PosOf(k + 2) = 1
      /\ (log[k + 2].rest > 0 /\ log[k + 2].fn.length # ErrorHandlerArity)
           => log[k + 2].how = "invoke"

\* a handler with a handler after it in its route skipped the route, and the
\* handler of a later route of the application answered
C5_Witness ==
  \E k \in Invokes :
    /\ SkipsRoute(k)
    /\ log[k].rest > 1
    /\ log[k + 2].op = "call"
    /\ log[k + 2].how = "invoke"
    /\ log[k + 2].fn = hEnd
    /\ res = OutputOf(hEnd)

\* the handler of event k raised
Raises(k) == log[k].fn.act = "throw"
\* the (route, position) pairs of the error-shape handlers the application
\* registered after the function of event k, in routes matching the request
LaterErrorHandlers(k) ==
  UNION {{<<i, p>> : p \in {q \in 1..Len(walked[i].middleware) :
                              /\ i > RouteOf(k) \/ q > PosOf(k)
                              /\ walked[i].middleware[q].length = ErrorHandlerArity}} :
         i \in {r \in UserRoutes : r >= RouteOf(k) /\ EntryMatches(r)}}
\* the error handlers of the application that an error reached after event k
ReachedErrorHandlers(k) ==
  {j \in Invokes : j > k /\ ~IsDefault(j) /\ log[j].fn.length = ErrorHandlerArity
                         /\ log[j].err # NULL}

\* C6: when a handler raises and no matching error handler is registered
\* after it, or every error handler that is reached raises as well, the
\* default "internal error" responder answers: the dispatch returns and the
\* response is finished with status 500 and the fixed body.
C6_RaiseIsInternalServerError ==
  \A k \in Invokes :
    (/\ Raises(k)
     /\ \/ LaterErrorHandlers(k) = {}
        \/ \A j \in ReachedErrorHandlers(k) : Raises(j))
      => /\ outcome = "returned"
         /\ res = DefaultInternalServerError

\* the handler of event k, called as declared, raised e or passed e as an
\* error
Signals(k, e) ==
  \/ Raises(k) /\ e = log[k].fn.val
  \/ /\ Aligned(k)
     /\ log[k].fn.act = "next"
     /\ Truthy(log[k].fn.val)
     /\ log[k].fn.val # "route"
     /\ e = log[k].fn.val
\* the first of a set of (route, position) pairs
First(S) ==
  CHOOSE x \in S : \A y \in S : x[1] < y[1] \/ (x[1] = y[1] /\ x[2] <= y[2])
\* what the handler fn, handed the error e, leaves as the last of the body
LastChunk(fn, e) == IF fn.act = "echo" THEN e ELSE fn.val

\* C7: when a handler raises e or passes e as an error, and a matching error
\* handler is registered after it, the first such handler is the next
\* function invoked, with e as its error; if it ends the response, that is
\* the response the client gets.
C7_ErrorReachesErrorHandler ==
  \A k \in Invokes : \A e \in {log[k].fn.val} :
    (Signals(k, e) /\ LaterErrorHandlers(k) # {}) =>
      \E j \in Invokes :
        /\ j > k
        /\ \A i \in Invokes : ~(k < i /\ i < j)
        /\ <<RouteOf(j), PosOf(j)>> = First(LaterErrorHandlers(k))
        /\ log[j].err = e
        /\ log[j].fn.act \in {"end", "echo"} =>
             /\ outcome = "returned"
             /\ res.finished
             /\ res.body # <<>>
             /\ res.body[Len(res.body)] = LastChunk(log[j].fn, e)
             /\ \A i \in Invokes : ~IsDefault(i)

\* route i of walked is the route of a mount
IsMount(i) ==
  /\ Len(walked[i].middleware) = 2
  /\ walked[i].middleware[2] = callNextRoute
  /\ walked[i].regexp = RootRegExp

\* C8: a mounted handler is a candidate for every request, whatever its
\* method and path; with no error in flight it is invoked before any handler
\* of a route registered after it, and when it continues the routes after it
\* are considered, in order.
C8_MountSeesEveryRequest ==
  /\ \A i \in 1..Len(allRoutes) :
       allRoutes[i].regexp = RootRegExp =>
         \A method \in program.methods, url \in program.urls :
           matchRoute([method |-> method, url |-> url, params |-> NoParams],
                      allRoutes[i]).matches
  /\ \A i \in UserRoutes :
       IsMount(i) =>
         /\ EntryMatches(i)
         /\ \A k \in Calls :
              RouteOf(k) > i =>
                \E j \in Calls :
                  /\ j < k
                  /\ RouteOf(j) = i
                  /\ PosOf(j) = 1
                  /\ log[j].how = "invoke" \/ log[j].err # NULL
         /\ \A k \in Invokes :
              (RouteOf(k) = i /\ PosOf(k) = 1 /\ Continues(k)) =>
                /\ k + 2 <= Len(log)
                /\ log[k + 1].op = "call"
                /\ log[k + 1].fn = callNextRoute
                /\ log[k + 1].how = "invoke"
                /\ log[k + 2].op = "find"
                /\ log[k + 2].err = NULL
                /\ log[k + 2].routes = Len(walked) - i
                /\ log[k + 2].found = FirstMatching(Len(walked) - i)

\* a mounted handler was invoked for a POST request, continued, and the
\* routes after it were gone through
C8_Witness ==
  /\ req.method = "POST"
  /\ \E k \in Invokes :
       /\ RouteOf(k) \in UserRoutes
       /\ IsMount(RouteOf(k))
       /\ PosOf(k) = 1
       /\ Continues(k)
       /\ log[k + 2].op = "find"

\* C9: when the routes are exhausted and the response's headers were already
\* sent, the default responder only ends the response: it does not raise,
\* the status stays as sent, and the dispatch returns.
C9_DefaultOnlyEndsSentResponse ==
  \A k \in Invokes :
    (IsDefault(k) /\ Aligned(k) /\ log[k].headersSent) =>
      /\ k = Len(log)
      /\ outcome = "returned"
      /\ res.finished
      /\ res.statusCode = StatusOK

\* C10: a dispatch goes through the routes in registration order and through
\* each route's handlers in order: no route or handler already passed is
\* considered again, and each search covers fewer routes than the one before.
C10_RegistryOrder ==
  /\ \A j, k \in Calls : j < k => Before(j, k)
  /\ \A j, k \in Finds : j < k => log[k].routes < log[j].routes

\* the routes an application of the program can register
Registrable ==
  {getRoute(path, callbacks) : path \in program.paths, callbacks \in program.callbacks}
    \cup {useRoute(callback) : callback \in program.mounts}

\* C11: the registry changes only by a registration call appending one route:
\* a step that changes it leaves its former routes as they were, in order,
\* and is no dispatch; and the routes a dispatch went through are afterwards
\* still the first routes of the registry, each as it was registered.
C11_RegistryAppendOnly ==
  [][/\ allRoutes' # allRoutes =>
          /\ Len(allRoutes') = Len(allRoutes) + 1
          /\ SubSeq(allRoutes', 1, Len(allRoutes)) = allRoutes
          /\ allRoutes'[Len(allRoutes')] \in Registrable
          /\ UNCHANGED <<walked, req, res, log, outcome>>
     /\ Dispatched' =>
          /\ Len(allRoutes') >= Len(walked') - Len(defaultRoutes)
          /\ SubSeq(allRoutes', 1, Len(walked') - Len(defaultRoutes)) \o defaultRoutes
               = walked']_vars

(***************************************************************************)
(* Reading one call of the CORS middleware: program is the options it was  *)
(* created with, req the request, res.headers the headers set, log the     *)
(* calls of res.setHeader and of next, in order.                           *)
(***************************************************************************)
\* the middleware was called
CorsCalled == program.created /\ outcome # "none"
\* the middleware set the response header name
IsSet(name) == \E k \in 1..Len(log) : log[k].op = "setHeader" /\ log[k].name = name

\* C12: on every call the middleware sets Access-Control-Allow-Methods to the
\* configured methods joined by commas, whatever the configured list, and to
\* "GET" when no methods are configured.
C12_AllowMethodsIsJoin ==
  CorsCalled =>
    /\ IsSet(AccessControlAllowMethods)
    /\ res.headers[AccessControlAllowMethods]
         = IF program.methods.given THEN join(program.methods.value) ELSE DefaultMethods

\* the request's Origin header is one of the configured origins
OriginConfigured ==
  /\ req.headers.origin.given
  /\ program.origin.given
  /\ \E i \in 1..Len(program.origin.value) :
       program.origin.value[i] = req.headers.origin.value
\* a header the middleware set has the value the request gave
Reflected(name, header) == IsSet(name) => res.headers[name] = header.value

\* C13 as stated: Access-Control-Allow-Origin is set exactly when the
\* request's Origin is one of the configured origins, and
\* Access-Control-Allow-Headers exactly when the request carries
\* Access-Control-Request-Headers; each is then the request's value.
C13_ReflectsAsStated ==
  CorsCalled =>
    /\ IsSet(AccessControlAllowOrigin) <=> OriginConfigured
    /\ Reflected(AccessControlAllowOrigin, req.headers.origin)
    /\ IsSet(AccessControlAllowHeaders) <=> req.headers.accessControlRequestHeaders.given
    /\ Reflected(AccessControlAllowHeaders, req.headers.accessControlRequestHeaders)

\* C13: Access-Control-Allow-Origin is set exactly when the request's Origin
\* is not empty and is one of the configured origins, and
\* Access-Control-Allow-Headers exactly when the request carries a
\* Access-Control-Request-Headers that is not empty; each is then the
\* request's value.
C13_ReflectsNonEmpty ==
  CorsCalled =>
    /\ IsSet(AccessControlAllowOrigin)
         <=> (OriginConfigured /\ req.headers.origin.value # "")
    /\ Reflected(AccessControlAllowOrigin, req.headers.origin)
    /\ IsSet(AccessControlAllowHeaders)
         <=> (/\ req.headers.accessControlRequestHeaders.given
              /\ req.headers.accessControlRequestHeaders.value # "")
    /\ Reflected(AccessControlAllowHeaders, req.headers.accessControlRequestHeaders)

\* a request with an origin that is not configured and requested headers:
\* the headers are reflected and the origin is not
C13_Witness ==
  /\ CorsCalled
  /\ req.headers.origin = Given("http://example.org")
  /\ program.origin = Given(<<"http://example.com">>)
  /\ req.headers.accessControlRequestHeaders = Given("Authorization")
  /\ res.headers[AccessControlAllowHeaders] = "Authorization"
  /\ ~IsSet(AccessControlAllowOrigin)

\* C14: created with a list of origins, the middleware on every call returns
\* having called the continuation exactly once, with no argument, as the
\* last thing it does, after the headers it sets; it raises nothing.
C14_AlwaysContinues ==
  (CorsCalled /\ program.origin.given) =>
    /\ outcome = "returned"
    /\ Len(log) >= 2
    /\ log[Len(log)] = NextEvent(UNDEFINED)
    /\ \A k \in 1..(Len(log) - 1) : log[k].op = "setHeader"

\* the middleware continued for a request whose origin is not allowed
C14_Witness ==
  /\ CorsCalled
  /\ program.origin = Given(<<"http://example.com">>)
  /\ req.headers.origin = Given("http://example.org")
  /\ ~IsSet(AccessControlAllowOrigin)
  /\ log[Len(log)] = NextEvent(UNDEFINED)

\* C15: while no error is in flight a handler of error shape is never
\* invoked: every function invoked with no error has normal shape.
C15_ErrorShapeNotInvokedWithoutError ==
  \A k \in Invokes : log[k].err = NULL => log[k].fn.length # ErrorHandlerArity

\* the call events after event k
CallsAfter(k) == {j \in Calls : j > k}
\* the first call event after event k, when there is one
NextCall(k) == CHOOSE j \in CallsAfter(k) : \A i \in CallsAfter(k) : j <= i
\* event k leaves an error e in flight: its handler, called as declared,
\* passed e or raised e, a value that is an error for next; or its handler
\* was passed over with e in flight
LeavesError(k, e) ==
  \/ /\ log[k].how = "invoke"
     /\ Signals(k, e)
     /\ Truthy(e)
     /\ e # "route"
  \/ /\ log[k].how = "skip"
     /\ e = log[k].err

\* C16: when a handler passes or raises an error, or is passed over with an
\* error in flight, the dispatch goes on with the element right after it,
\* those of the same route included, with that error in flight.
C16_ErrorGoesToNextInRoute ==
  \A k \in Calls : \A e \in {log[k].fn.val, log[k].err} :
    (LeavesError(k, e) /\ log[k].rest > 1) =>
      /\ CallsAfter(k) # {}
      /\ RouteOf(NextCall(k)) = RouteOf(k)
      /\ PosOf(NextCall(k)) = PosOf(k) + 1
      /\ log[NextCall(k)].err = e

\* the events after event k that carry the error state of the dispatch
StatesAfter(k) == {j \in Calls \cup Finds : j > k}

\* C17: whatever value a handler raises, the dispatch is afterwards in the
\* error phase with that value: the next search or call carries it, and the
\* next function invoked has error shape.
C17_AnyRaisedValueIsAnError ==
  \A k \in Invokes :
    Raises(k) =>
      /\ \A j \in StatesAfter(k) :
           (\A i \in StatesAfter(k) : j <= i) => log[j].err = log[k].fn.val
      /\ \A j \in Invokes :
           (j > k /\ \A i \in Invokes : ~(k < i /\ i < j))
             => log[j].fn.length = ErrorHandlerArity

\* the handler of event k raises, or passes an error
PutsError(k) ==
  \/ Raises(k)
  \/ log[k].fn.act = "next" /\ Truthy(log[k].fn.val) /\ log[k].fn.val # "route"
\* the handler of event k, an error handler handling an error, signalled
\* "route-skip"
ErrorHandlerSkipsRoute(k) ==
  /\ SkipsRoute(k)
  /\ log[k].fn.length = ErrorHandlerArity
  /\ log[k].err # NULL

\* C18: when an error handler that is handling an error signals "route-skip",
\* the dispatch resumes at the first matching route after its route with no
\* error in flight; from then on only handlers of normal shape are invoked,
\* until one raises or passes an error, and a dispatch that ends without one
\* of the application's handlers ending the response ends 404.
C18_ErrorHandlerRouteSkip ==
  \A k \in Invokes :
    ErrorHandlerSkipsRoute(k) =>
      /\ k + 1 <= Len(log)
      /\ log[k + 1].op = "find"
      /\ log[k + 1].err = NULL
      /\ log[k + 1].routes = log[k].left
      /\ \A j \in Invokes :
           (j > k /\ \A i \in Invokes : (k < i /\ i < j) => ~PutsError(i))
             => log[j].fn.length # ErrorHandlerArity
      /\ (\A j \in Invokes : j > k => log[j].fn.act \in {"next", "builtin"})
           => res = DefaultNotFound

\* the captures of the match of the request's url by route i
CapturesOf(i) == Tail(StringMatch(req.url, walked[i].regexp).arr)
\* the index in walked of the first of the routes a search event k covers
FirstOf(k) == Len(walked) - log[k].routes + 1

\* C19: a search passes over the routes whose method or path does not match
\* and changes nothing by it: the first matching route is taken, with the
\* error that was in flight, present or absent, and with params the captures
\* of that route alone; no function of a route that does not match is ever
\* called.
C19_PassingOverChangesNothing ==
  /\ \A k \in Finds :
       log[k].found > 0 =>
         /\ log[k].found = FirstMatching(log[k].routes)
         /\ k + 1 <= Len(log)
         /\ log[k + 1].op = "call"
         /\ log[k + 1].err = log[k].err
         /\ RouteOf(k + 1) = FirstOf(k) + log[k].found - 1
         /\ log[k + 1].params = CapturesOf(RouteOf(k + 1))
  /\ \A k \in Calls : EntryMatches(RouteOf(k))

\* a search with an error in flight passed over a route of the application
\* and took a later one
C19_Witness ==
  \E k \in Finds :
    /\ log[k].err # NULL
    /\ log[k].found > 1
    /\ FirstOf(k) \in UserRoutes
    /\ ~EntryMatches(FirstOf(k))
    /\ log[k + 1].err = log[k].err

\* the path of a url: what comes before its query string
RECURSIVE PathOf(_)
PathOf(url) ==
  IF url = <<>> \/ Head(url) = "?" THEN <<>> ELSE <<Head(url)>> \o PathOf(Tail(url))
\* route i matches the path of the request
EntryMatchesPath(i) ==
  /\ walked[i].method \in {UNDEFINED, req.method}
  /\ StringMatch(PathOf(req.url), walked[i].regexp).ok

\* C20: a route matches a request whose url has a query string exactly when
\* it matches the path of the url, the query string left out: its handler
\* answers such a request; and the request a handler of the application
\* was invoked for has a query, the mapping parsed from its query string.
C20_MatchesPathOnly ==
  (Dispatched /\ \E n \in 1..Len(req.url) : req.url[n] = "?") =>
    /\ \A i \in UserRoutes : EntryMatches(i) <=> EntryMatchesPath(i)
    /\ \A k \in Invokes :
         ~IsDefault(k) /\ RouteOf(k) \in UserRoutes => EntryMatchesPath(RouteOf(k))
    /\ (\E i \in UserRoutes : EntryMatchesPath(i) /\ walked[i].middleware = <<hEnd>>)
         => ~(\E k \in Invokes : IsDefault(k))
    /\ (\E k \in Invokes : ~IsDefault(k)) => "query" \in DOMAIN req

\* C21: every search for the next route of a request finds a matching
\* route: the default routes match any request and are the last of the
\* walked list, so findRouteAndCallMiddleware is never left without a
\* match, whatever the handlers do.
C21_EverySearchFinds ==
  \A k \in Finds : log[k].routes > 0 /\ log[k].found > 0

\* the path specifier route i was compiled from: its regexp without the
\* anchors pathToRegExp put around it
Specifier(i) == SubSeq(walked[i].regexp.source, 2, Len(walked[i].regexp.source) - 1)
\* the branches of a specifier: its parts between the "|" of its top level
RECURSIVE Branches(_, _)
Branches(src, branch) ==
  IF src = <<>> THEN {branch}
  ELSE IF Head(src) = "|" THEN {branch} \cup Branches(Tail(src), <<>>)
  ELSE Branches(Tail(src), Append(branch, Head(src)))
\* the whole of s, from its start to its end, matches the specifier
MatchesEntirely(s, specifier, flags) ==
  \E branch \in Branches(specifier, <<>>) :
    StringMatch(s, pathToRegExp(RegExp(branch, flags \cap {"i"}))).ok

\* C22: the rule compiled from a path specifier of app.get matches a
\* request only when the entire path of the request, from its start to
\* its end, matches the specifier (one of its branches, when its top level
\* is an alternation): a path that only begins or only ends with a match
\* of the specifier is not accepted, and its handlers are not invoked.
C22_MatchesEntirePath ==
  Dispatched =>
    \A i \in UserRoutes :
      (~IsMount(i) /\ StringMatch(req.url, walked[i].regexp).ok)
        => MatchesEntirely(req.url, Specifier(i), walked[i].regexp.flags)

\* the first search or call after event k
NextState(k) == CHOOSE j \in StatesAfter(k) : \A i \in StatesAfter(k) : j <= i
\* event k considers an element of a route with an error in flight and
\* invokes no handler: the element is passed over, or the route has none
KeepsError(k) ==
  /\ log[k].err # NULL
  /\ log[k].how # "invoke"
\* after event k a handler of the application is invoked with the error
ClaimedAfter(k) ==
  \E j \in Invokes : j > k /\ ~IsDefault(j) /\ log[j].err # NULL

\* C23: an error in flight is dropped only by an error-shape handler that
\* was invoked with it: an entry that invokes no handler leaves it in
\* flight. The search or call that follows such an entry, a matching route
\* with an empty handler list among them, carries the same error, and an
\* error no handler of the application is invoked with ends as the default
\* 500 response.
C23_OnlyErrorHandlersDropErrors ==
  \A k \in Calls :
    KeepsError(k) =>
      /\ StatesAfter(k) # {}
      /\ log[NextState(k)].err = log[k].err
      /\ ~ClaimedAfter(k) => res = DefaultInternalServerError

\* the invocations of the default responders
DefaultInvokes == {k \in Invokes : IsDefault(k)}

\* C24: within one request no handler is invoked more than once, and at
\* most one default response (404 or 500) is attempted, also when a handler
\* has sent headers before it continued or raised. (Every handler of the
\* model does at most one of: end the response, call the continuation
\* once, raise.)
C24_InvokedAtMostOnce ==
  /\ \A j, k \in Invokes :
       (RouteOf(j) = RouteOf(k) /\ PosOf(j) = PosOf(k)) => j = k
  /\ \A j, k \in DefaultInvokes : j = k

\* the calls of a continuation in a later turn
Resumes == {k \in 1..Len(log) : log[k].op = "resume"}
\* every call of the dispatch is a call of the list the request took when
\* it started, default routes last: of the function walked holds at the
\* call's route and position
CallsSnapshot ==
  /\ SubSeq(walked, Len(walked) - Len(defaultRoutes) + 1, Len(walked)) = defaultRoutes
  /\ log[1].op = "find" /\ log[1].routes = Len(walked)
  /\ \A k \in Calls :
       /\ log[k].left < Len(walked)
       /\ log[k].rest <= Len(walked[RouteOf(k)].middleware)
       /\ log[k].rest > 0 => log[k].fn = walked[RouteOf(k)].middleware[PosOf(k)]
\* every search of the dispatch covers a suffix of that list and finds its
\* first matching route
SearchesSnapshot ==
  \A k \in Finds :
    /\ log[k].routes <= Len(walked)
    /\ log[k].found = FirstMatching(log[k].routes)
\* the routes of a list as they were registered, their regexps not yet used
AsRegistered(routes) ==
  [i \in 1..Len(routes) |-> [routes[i] EXCEPT !.regexp.lastIndex = 0]]
\* the step calls a continuation of the request in flight
ResumesRequest ==
  /\ Len(log') > Len(log)
  /\ log'[Len(log) + 1].op = "resume"
\* the step starts the dispatch of a request
StartsRequest == log' # log /\ ~ResumesRequest

\* C25: a registration made while a request is in flight does not change
\* what the request walks. A request walks the routes registered when its
\* dispatch started, in that order, followed by the default routes; a
\* continuation called after a registration goes on over that same list;
\* and a request started after the registration walks the new route too.
C25_RegistrationInFlight ==
  [][/\ StartsRequest => walked' = allRoutes \o defaultRoutes
     /\ ~StartsRequest => AsRegistered(walked') = AsRegistered(walked)
     /\ Dispatched' => CallsSnapshot'
     /\ ResumesRequest => SearchesSnapshot']_vars
\* a continuation was called after the registry had grown past the list
\* its request walks, and the dispatch went on to the routes after its own
C25_Witness ==
  \E k \in Resumes :
    /\ log[k].registered > Len(walked) - Len(defaultRoutes)
    /\ \E j \in Finds : j > k
    /\ Len(allRoutes) = log[k].registered

\* the handler invoked at event k does one of the three: it ends the
\* response, calls its continuation once, or raises (called with shifted
\* parameters it raises at its first use of them)
DoesExactlyOne(k) == log[k].fn.act \in {"end", "echo", "next", "throw"}
\* the invocations that end the response: of a handler that calls res.end,
\* and of a default responder whose writeHead does not raise
Ends ==
  {k \in Invokes :
     /\ Aligned(k)
     /\ \/ log[k].fn.act \in {"end", "echo"}
        \/ IsDefault(k) /\ ~log[k].headersSent}

\* C26: when every handler invoked for a request ends the response, calls
\* its continuation once or raises, the dispatch terminates: every search
\* is over fewer routes than the search before it and every call is at a
\* later place of the walked list than the call before it; handleRequest
\* returns, and the response has been ended exactly once, by a handler or
\* by a default responder.
C26_TerminatesEndedOnce ==
  (Dispatched /\ \A k \in Invokes : IsDefault(k) \/ DoesExactlyOne(k)) =>
    /\ \A j, k \in Finds : j < k => log[k].routes < log[j].routes
    /\ \A j, k \in Calls : j < k => Before(j, k)
    /\ outcome = "returned"
    /\ res.finished
    /\ Cardinality(Ends) = 1

\* the handler invoked at event k returns without ending the response,
\* without calling its continuation and without raising
ReturnsSilently(k) == log[k].fn.pre = "none" /\ log[k].fn.act \in {"return", "defer"}

\* C27: when an invoked handler returns without ending the response,
\* without calling the continuation and without raising, nothing further
\* happens for the request: its invocation is the last event of the
\* dispatch, handleRequest returns, no later route is searched, no default
\* responder is invoked and the response is not finished; the only event
\* that can follow is that handler's own later call of its continuation.
C27_SilentHandlerStops ==
  \A k \in Invokes :
    ReturnsSilently(k) =>
      \/ /\ k = Len(log)
         /\ outcome = "returned"
         /\ ~res.finished
         /\ \A j \in Invokes : ~IsDefault(j)
      \/ /\ k < Len(log)
         /\ log[k].fn.act = "defer"
         /\ log[k + 1].op = "resume"
\* a handler that never signals was invoked, and a route the application
\* registered after its own matches the request too
C27_Witness ==
  \E k \in Invokes :
    /\ log[k].fn = hSilent
    /\ RouteOf(k) + 1 \in UserRoutes
    /\ EntryMatches(RouteOf(k) + 1)
=============================================================================
